---- MODULE Spec2Model ----
(***************************************************************************)
(* Safe Tool Call: the governed call pipeline (proxy engine) and the       *)
(* components it composes: tool registry, permission engine, schema        *)
(* validator, CLI handler, output policy engine and audit logger, as the   *)
(* repository's plan, README, FAQ and design decisions describe them.      *)
(***************************************************************************)
EXTENDS Integers, Sequences, FiniteSets, TLC

VARIABLES
    registry,     \* Tool Registry: sequence of ToolDefinition, registration order
    pc,           \* pc[c]: pipeline position of call c
    req,          \* req[c]: (toolName, args, callerContext) of proxy.call
    st,           \* st[c]: pipeline state of call c (looked-up tool, failure, output)
    result,       \* result[c]: the ToolCallResult returned to the caller
    handlerRuns,  \* handlerRuns[c]: number of times the handler was spawned for c
    auditLog,     \* entries handed to auditLogger.log, in order
    auditFile,    \* lines persisted in audit-logs/YYYY-MM-DD.jsonl
    stderr,       \* audit write failures reported on stderr
    auditQueue,   \* entries dispatched to the audit writer and not yet written
    unit,         \* a component operation invoked on its own: its name, input, result
    config        \* configuration loaded at startup: the audit debug-mode flag

vars ==
    <<registry, pc, req, st, result, handlerRuns, auditLog, auditFile, stderr,
      auditQueue, unit, config>>

\* Number of proxy.call invocations explored.
MaxCalls == 1

Calls == 1..MaxCalls

-----------------------------------------------------------------------------
(* Values                                                                  *)

\* Raw arguments as the agent sends them: null, or an object with one field.
NullArgs == [kind |-> "null", field |-> "", value |-> ""]

Obj(f, v) == [kind |-> "object", field |-> f, value |-> v]

RawArgs ==
    { NullArgs,
      Obj("newStatus", "ACTIVE"), Obj("newStatus", "OFFBOARDED"),
      Obj("directory", "/app/src"), Obj("directory", "/etc") }

\* SHA-256 of a value: the value's index in a fixed enumeration of the domain.
RawArgsOrder ==
    << NullArgs, Obj("newStatus", "ACTIVE"), Obj("newStatus", "OFFBOARDED"),
       Obj("directory", "/app/src"), Obj("directory", "/etc") >>

IndexOf(seq, x) == CHOOSE i \in 1..Len(seq) : seq[i] = x

argsHash(args) == <<"sha256", IndexOf(RawArgsOrder, args)>>

-----------------------------------------------------------------------------
(* ToolDefinition and the catalog loaded at startup                        *)

NoSchema == [field |-> "", enum |-> {}]

\* Output policy patterns. A leaf path is the sequence of its segments
\* (.customer.id is <<"customer", "id">>, an array element is "[0]", "[1]").
\* .a.b : the path itself, with "*" for any one segment and "[]" for every
\* element of an array
Path(segs) == [kind |-> "path", segs |-> segs]

\* ..name : the field name at any depth
Recursive(name) == [kind |-> "recursive", segs |-> <<name>>]

\* "*" : the catch-all
CatchAll == [kind |-> "catchall", segs |-> <<>>]

NoTool ==
    [ name |-> "", classification |-> "none", required |-> {},
      elevatedIf |-> "none", elevatedPermissions |-> {},
      input |-> NoSchema, piiFields |-> {}, outputFields |-> {}, outputPolicy |-> <<>> ]

\* write tool with elevated permissions for the OFFBOARDED transition
update_customer_status ==
    [ name |-> "update_customer_status", classification |-> "write",
      required |-> {"customer-data:write"},
      elevatedIf |-> "newStatusIsOffboarded",
      elevatedPermissions |-> {"customer-data:lifecycle:destructive"},
      input |-> [field |-> "newStatus", enum |-> {"ACTIVE", "OFFBOARDED"}],
      piiFields |-> {},
      outputFields |-> {<<"customer", "id">>, <<"customer", "email">>},
      outputPolicy |-> << [pattern |-> Path(<<"customer", "email">>), rule |-> "redact"],
                          [pattern |-> CatchAll, rule |-> "allow"] >> ]

\* ls with the directory constrained to an enum
list_files ==
    [ name |-> "list_files", classification |-> "read",
      required |-> {"files:read"},
      elevatedIf |-> "none", elevatedPermissions |-> {},
      input |-> [field |-> "directory", enum |-> {"/app/src", "/app/tests", "/app/tools"}],
      piiFields |-> {},
      outputFields |-> {<<"files">>},
      outputPolicy |-> << [pattern |-> Path(<<"files">>), rule |-> "mask"] >> ]

\* a destructive tool that requires ops:write
argocd_sync ==
    [ name |-> "argocd_sync", classification |-> "destructive",
      required |-> {"ops:write"},
      elevatedIf |-> "none", elevatedPermissions |-> {},
      input |-> [field |-> "directory", enum |-> {"/app/src"}],
      piiFields |-> {"directory"},
      outputFields |-> {<<"status">>},
      outputPolicy |-> << [pattern |-> Path(<<"status">>), rule |-> "allow"] >> ]

Catalog == << update_customer_status, list_files, argocd_sync >>

\* Names an agent may ask for: the registered ones and one that is not.
ToolNames ==
    {"update_customer_status", "list_files", "argocd_sync", "execute_shell_command"}

\* CallerContext: sub and permissions
Callers ==
    { [sub |-> "support-agent",
       permissions |-> {"customer-data:read", "files:read"}],
      [sub |-> "cb-dev",
       permissions |-> {"customer-data:write", "files:read", "ops:write"}],
      [sub |-> "deployment-agent-prod",
       permissions |-> {"customer-data:write", "customer-data:lifecycle:destructive",
                        "ops:write", "allow_destructive"}] }

-----------------------------------------------------------------------------
(* Tool Registry                                                           *)

\* the error of a rejected registration
DuplicateName == "DuplicateName"

registerOverwrite(reg, tool) ==
    IF \E i \in 1..Len(reg) : reg[i].name = tool.name
    THEN [registry |-> [i \in 1..Len(reg) |->
                            IF reg[i].name = tool.name THEN tool ELSE reg[i]],
          error |-> "none"]
    ELSE [registry |-> Append(reg, tool), error |-> "none"]

\* register(tool): adds the tool, rejects duplicates
register(reg, tool) ==
    IF \E i \in 1..Len(reg) : reg[i].name = tool.name
    THEN [registry |-> reg, error |-> DuplicateName]
    ELSE [registry |-> Append(reg, tool), error |-> "none"]

\* get(name): the tool, or undefined (NoTool)
RegistryGet(reg, name) ==
    IF \E i \in 1..Len(reg) : reg[i].name = name
    THEN reg[CHOOSE i \in 1..Len(reg) : reg[i].name = name]
    ELSE NoTool

RegistryListReversed(reg) == [i \in 1..Len(reg) |-> reg[Len(reg) + 1 - i]]

\* list(): all tools
RegistryList(reg) == reg

-----------------------------------------------------------------------------
(* Permission Engine                                                       *)

\* Lower-casing of a permission string (used by no code path of the engine).
Lower(p) == IF p = "OPS:WRITE" THEN "ops:write" ELSE p

MatchPermissionIgnoreCase(held, needed) == Lower(held) = Lower(needed)

\* exact match of two permission strings
MatchPermission(held, needed) == held = needed

HasPermission(caller, p) == \E h \in caller.permissions : MatchPermission(h, p)

\* elevatedIf(input) on the raw arguments: "true", "false", or "throws" when the
\* predicate dereferences a field of null.
EvalElevatedIf(tool, input) ==
    IF tool.elevatedIf = "none" THEN "false"
    ELSE IF input.kind = "null" THEN "throws"
    ELSE IF input.field = "newStatus" /\ input.value = "OFFBOARDED" THEN "true"
    ELSE "false"

elevationOnErrorOpen == FALSE

\* a predicate error counts as "elevation required"
elevationOnError == TRUE

ElevationRequired(tool, input) ==
    LET r == EvalElevatedIf(tool, input)
    IN  r = "true" \/ (r = "throws" /\ elevationOnError)

MissingOf(caller, perms) == {p \in perms : ~HasPermission(caller, p)}

\* destructive tools require an additional allow_destructive permission
ClassificationPermissions(tool) ==
    IF tool.classification = "destructive" THEN {"allow_destructive"} ELSE {}

checkPermissionsFirstMissing(caller, tool, input) ==
    LET missing ==
            MissingOf(caller, tool.required)
            \cup (IF ElevationRequired(tool, input)
                  THEN MissingOf(caller, tool.elevatedPermissions) ELSE {})
            \cup MissingOf(caller, ClassificationPermissions(tool))
    IN  [ allowed |-> missing = {},
          reason |-> IF missing = {} THEN "" ELSE "missing permissions",
          missingPermissions |->
              IF MissingOf(caller, tool.required) # {}
              THEN MissingOf(caller, tool.required) ELSE missing ]

\* checkPermissions(caller, tool, input) -> {allowed, reason?, missingPermissions?}
checkPermissions(caller, tool, input) ==
    LET missing ==
            MissingOf(caller, tool.required)
            \cup (IF ElevationRequired(tool, input)
                  THEN MissingOf(caller, tool.elevatedPermissions) ELSE {})
            \cup MissingOf(caller, ClassificationPermissions(tool))
    IN  [ allowed |-> missing = {},
          reason |-> IF missing = {} THEN "" ELSE "missing permissions",
          missingPermissions |-> missing ]

-----------------------------------------------------------------------------
(* Schema Validator                                                        *)

FieldError(path, expected, received) ==
    [path |-> path, expected |-> expected, received |-> received]

\* validateInput(schema, args) -> {ok: true, data} | {ok: false, errors}
validateInput(schema, args) ==
    IF args.kind = "null"
    THEN [ok |-> FALSE, data |-> NullArgs,
          errors |-> <<FieldError("", "object", "null")>>]
    ELSE IF args.field # schema.field
    THEN [ok |-> FALSE, data |-> NullArgs,
          errors |-> <<FieldError(schema.field, "enum", "undefined")>>]
    ELSE IF args.value \notin schema.enum
    THEN [ok |-> FALSE, data |-> NullArgs,
          errors |-> <<FieldError(schema.field, "enum", args.value)>>]
    ELSE [ok |-> TRUE, data |-> args, errors |-> <<>>]

\* validateOutput(schema, result): same shape; the fields the schema declares
\* must all be present.
validateOutput(fields, out) ==
    LET absent == fields \ DOMAIN out
    IN  [ok |-> absent = {}, data |-> out, missingFields |-> absent]

-----------------------------------------------------------------------------
(* CLI Command Handler                                                     *)

NoOutput == [p \in {} |-> <<>>]

\* What the spawned command may print for a tool: the declared fields, or an
\* object that lacks one of them.
GoodOutput(tool) ==
    IF tool.name = "update_customer_status"
    THEN (<<"customer", "id">> :> <<"1">>)
         @@ (<<"customer", "email">> :> <<"a", "@", "b", ".", "c", "o", "m">>)
    ELSE IF tool.name = "list_files"
    THEN (<<"files">> :> <<"a", ".", "t", "s">>)
    ELSE (<<"status">> :> <<"O", "K">>)

BadOutput(tool) ==
    IF tool.name = "update_customer_status"
    THEN (<<"customer", "email">> :> <<"a", "@", "b", ".", "c", "o", "m">>)
    ELSE (<<"unexpected">> :> <<"x">>)

\* Outcomes of handler.execute: exit 0 with parsed stdout, a non-zero exit
\* code, or the AbortSignal firing after the timeout (output captured so far).
ExecOutcomes(tool) ==
    { [kind |-> "ok", exitCode |-> 0, output |-> GoodOutput(tool)],
      [kind |-> "ok", exitCode |-> 0, output |-> BadOutput(tool)],
      [kind |-> "exit", exitCode |-> 1, output |-> NoOutput],
      [kind |-> "exit", exitCode |-> 2, output |-> BadOutput(tool)],
      [kind |-> "timeout", exitCode |-> 0, output |-> BadOutput(tool)] }

NoExec == [kind |-> "none", exitCode |-> 0, output |-> NoOutput]

-----------------------------------------------------------------------------
(* Output Policy Engine                                                    *)

IsIndex(seg) == seg \in {"[0]", "[1]"}

SegMatch(ps, seg) == ps = seg \/ ps = "*" \/ (ps = "[]" /\ IsIndex(seg))

MatchesLeafOnly(pattern, leaf) ==
    CASE pattern.kind = "catchall" -> TRUE
      [] pattern.kind = "recursive" -> leaf[Len(leaf)] = pattern.segs[1]
      [] pattern.kind = "path" ->
            /\ Len(pattern.segs) = Len(leaf)
            /\ \A i \in 1..Len(pattern.segs) : SegMatch(pattern.segs[i], leaf[i])

\* A pattern matches a leaf field; a path that ends at an object or array
\* matches every leaf of that subtree.
Matches(pattern, leaf) ==
    CASE pattern.kind = "catchall" -> TRUE
      [] pattern.kind = "recursive" ->
            \E i \in 1..Len(leaf) : leaf[i] = pattern.segs[1]
      [] pattern.kind = "path" ->
            /\ Len(pattern.segs) <= Len(leaf)
            /\ \A i \in 1..Len(pattern.segs) : SegMatch(pattern.segs[i], leaf[i])

\* The pattern ends at the leaf itself, not at an object or array above it.
EndsAtLeaf(pattern, leaf) ==
    CASE pattern.kind = "catchall" -> TRUE
      [] pattern.kind = "recursive" -> leaf[Len(leaf)] = pattern.segs[1]
      [] pattern.kind = "path" -> Len(pattern.segs) = Len(leaf)

SpecificityRecursiveFirst(pattern) ==
    CASE pattern.kind = "catchall" -> <<0, 0>>
      [] pattern.kind = "recursive" -> <<3, 1>>
      [] pattern.kind = "path" ->
            IF \E i \in 1..Len(pattern.segs) : pattern.segs[i] = "*"
            THEN <<2, Len(pattern.segs)>> ELSE <<1, Len(pattern.segs)>>

\* Most specific path wins: an exact path, then a path with a wildcard
\* segment, then recursive descent, then the catch-all; of two paths of one
\* kind the deeper is the more specific.
Specificity(pattern) ==
    CASE pattern.kind = "catchall" -> <<0, 0>>
      [] pattern.kind = "recursive" -> <<1, 1>>
      [] pattern.kind = "path" ->
            IF \E i \in 1..Len(pattern.segs) : pattern.segs[i] = "*"
            THEN <<2, Len(pattern.segs)>> ELSE <<3, Len(pattern.segs)>>

\* s is at most as specific as t
AtMostAsSpecific(s, t) == s[1] < t[1] \/ (s[1] = t[1] /\ s[2] <= t[2])

\* Among rules of equal specificity, the first declared.
TieBreak(indices) == CHOOSE i \in indices : \A j \in indices : i <= j

MatchingRulesAll(policy, leaf) == 1..Len(policy)

MatchingRules(policy, leaf) ==
    {i \in 1..Len(policy) : Matches(policy[i].pattern, leaf)}

RuleIndexLastMatch(policy, leaf) ==
    LET matching == MatchingRules(policy, leaf)
    IN  IF matching = {} THEN 0 ELSE CHOOSE i \in matching : \A j \in matching : j <= i

\* The index of the rule applied to a leaf, 0 when no rule matches.
RuleIndex(policy, leaf) ==
    LET matching == MatchingRules(policy, leaf)
        best == {i \in matching :
                    \A j \in matching :
                        AtMostAsSpecific(Specificity(policy[j].pattern),
                                         Specificity(policy[i].pattern))}
    IN  IF matching = {} THEN 0 ELSE TieBreak(best)

\* The rule for a leaf path: that of the most specific matching pattern, else
\* deny; mask on an object or array is a full redact of the subtree.
RuleFor(policy, path) ==
    LET i == RuleIndex(policy, path)
    IN  IF i = 0 THEN "deny"
        ELSE IF policy[i].rule = "mask" /\ ~EndsAtLeaf(policy[i].pattern, path)
        THEN "redact"
        ELSE policy[i].rule

\* Masking: first char + *** + last char (of the empty string: nothing + ***
\* + nothing)
Mask(s) ==
    IF Len(s) = 0 THEN <<"*", "*", "*">>
    ELSE <<s[1], "*", "*", "*", s[Len(s)]>>

filterOutputReportsStripped(data, policy) ==
    LET kept == {p \in DOMAIN data : RuleFor(policy, p) \in {"allow", "mask"}}
    IN  [ filtered |->
              [p \in kept |->
                  IF RuleFor(policy, p) = "mask" THEN Mask(data[p]) ELSE data[p]],
          redactedPaths |->
              {p \in DOMAIN data : RuleFor(policy, p) # "allow"} ]

\* The rules whose application is reported in redactedPaths: a masked field
\* is reported like a redacted one.
TouchedRules == {"mask", "redact"}

\* filterOutput(data, policy) -> {filtered, redactedPaths}
filterOutput(data, policy) ==
    LET kept == {p \in DOMAIN data : RuleFor(policy, p) \in {"allow", "mask"}}
    IN  [ filtered |->
              [p \in kept |->
                  IF RuleFor(policy, p) = "mask" THEN Mask(data[p]) ELSE data[p]],
          redactedPaths |->
              {p \in DOMAIN data : RuleFor(policy, p) \in TouchedRules} ]

\* SHA-256 of the raw output: a digest that names the value without holding it.
outputHash(out) == <<"sha256", Cardinality(DOMAIN out), DOMAIN out>>

-----------------------------------------------------------------------------
(* ToolCallResult and ToolCallError                                        *)

NoDetail == [missing |-> {}, errors |-> <<>>, exitCode |-> 0, kind |-> "none",
             missingFields |-> {}]

NoError == [code |-> "", message |-> [text |-> "", names |-> {}], stage |-> "",
            details |-> <<>>]

NoResult == [ok |-> FALSE, data |-> NoOutput, error |-> NoError, set |-> FALSE]

\* { ok: true, data }
Ok(data) == [ok |-> TRUE, data |-> data, error |-> NoError, set |-> TRUE]

\* { ok: false, error: { code, message, stage, details? } }
Err(code, message, stage, details) ==
    [ ok |-> FALSE, data |-> NoOutput,
      error |-> [code |-> code, message |-> message, stage |-> stage,
                 details |-> details],
      set |-> TRUE ]

Generic(text) == [text |-> text, names |-> {}]

\* result.error.code of a permission failure
PermissionDeniedCode == "PERMISSION_DENIED"

\* error code per failing pipeline step
ErrorCode(at) ==
    CASE at = "LOOKUP" -> "NotFound"
      [] at = "PERMISSION" -> PermissionDeniedCode
      [] at = "VALIDATE_INPUT" -> "InvalidInput"
      [] at = "EXECUTE" -> "ExecutionFailure"
      [] at = "VALIDATE_OUTPUT" -> "InvalidOutput"

\* result.error.message of a permission failure: "Missing permission: <names>"
PermissionMessage(missing) == [text |-> "Missing permission: ", names |-> missing]

ExecutionMessageWithExitCode(outcome) ==
    [text |-> "handler failed: ", names |-> {outcome.exitCode}]

\* the agent receives a generic timeout error; other handler failures are a
\* generic internal error
ExecutionMessage(outcome) ==
    IF outcome.kind = "timeout" THEN Generic("timeout") ELSE Generic("internal error")

-----------------------------------------------------------------------------
(* Audit Logger                                                            *)

NoDenial == [reason |-> NoDetail, stage |-> "NONE"]

NoResponse == [redactedFields |-> {}, outputHash |-> <<>>, present |-> FALSE]

AuditArgsCleartext(tool, args) ==
    IF args.kind = "null" THEN <<>>
    ELSE << [field |-> args.field, hashed |-> FALSE, value |-> args.value] >>

AuditArgsPiiLabelOnly(tool, args) ==
    IF ~config.debug \/ args.kind = "null" THEN <<>>
    ELSE << [field |-> args.field, hashed |-> args.field \in tool.piiFields,
             value |-> args.value] >>

\* request.args of a debug-mode entry: the fields listed in piiFields hashed,
\* all other fields in cleartext; production mode logs the hash only
AuditArgs(tool, args) ==
    IF ~config.debug \/ args.kind = "null" THEN <<>>
    ELSE IF args.field \in tool.piiFields
    THEN << [field |-> args.field, hashed |-> TRUE, value |-> argsHash(args)] >>
    ELSE << [field |-> args.field, hashed |-> FALSE, value |-> args.value] >>

\* denial.reason: the failure detail, without the received argument values
\* (input args are never logged in cleartext)
AuditReason(detail) ==
    [detail EXCEPT !.errors =
        [i \in 1..Len(detail.errors) |->
            [path |-> detail.errors[i].path, expected |-> detail.errors[i].expected]]]

AuditEntryResponseAlways(c, r, s) ==
    [ traceId |-> c,
      caller |-> r.caller,
      tool |-> [name |-> r.toolName, classification |-> s.tool.classification],
      request |-> [argsHash |-> argsHash(r.args), args |-> AuditArgs(s.tool, r.args)],
      decision |-> s.decision,
      denial |-> IF s.decision = "ALLOWED" THEN NoDenial
                 ELSE [reason |-> AuditReason(s.detail), stage |-> s.stage],
      response |-> [redactedFields |-> s.redactedPaths,
                    outputHash |-> outputHash(s.exec.output),
                    present |-> TRUE] ]

\* The audit entry of call c, built from the pipeline state.
AuditEntry(c, r, s) ==
    [ traceId |-> c,
      caller |-> r.caller,
      tool |-> [name |-> r.toolName, classification |-> s.tool.classification],
      request |-> [argsHash |-> argsHash(r.args), args |-> AuditArgs(s.tool, r.args)],
      decision |-> s.decision,
      denial |-> IF s.decision = "ALLOWED" THEN NoDenial
                 ELSE [reason |-> AuditReason(s.detail), stage |-> s.stage],
      response |-> IF s.decision = "ALLOWED"
                   THEN [redactedFields |-> s.redactedPaths,
                         outputHash |-> outputHash(s.exec.output),
                         present |-> TRUE]
                   ELSE NoResponse ]

-----------------------------------------------------------------------------
(* Proxy Engine: call(toolName, args, callerContext)                       *)

Stages ==
    << "LOOKUP", "PERMISSION", "VALIDATE_INPUT", "EXECUTE", "VALIDATE_OUTPUT",
       "FILTER_OUTPUT", "AUDIT", "DONE" >>

AdvanceSkipAuditOnNotFound(at, passed) ==
    IF ~passed
    THEN (IF at = "LOOKUP" THEN "DONE" ELSE "AUDIT")
    ELSE Stages[IndexOf(Stages, at) + 1]

AdvanceValidateBeforePermission(at, passed) ==
    IF ~passed THEN "AUDIT"
    ELSE CASE at = "LOOKUP" -> "VALIDATE_INPUT"
           [] at = "VALIDATE_INPUT" -> "PERMISSION"
           [] at = "PERMISSION" -> "EXECUTE"
           [] OTHER -> Stages[IndexOf(Stages, at) + 1]

AdvanceIgnoreInvalidInput(at, passed) ==
    IF ~passed /\ at # "VALIDATE_INPUT" THEN "AUDIT"
    ELSE Stages[IndexOf(Stages, at) + 1]

AdvanceRetryExecute(at, passed) ==
    IF ~passed /\ at = "EXECUTE" THEN "EXECUTE"
    ELSE IF ~passed THEN "AUDIT" ELSE Stages[IndexOf(Stages, at) + 1]

\* The step after stage `at`: the next stage when it passed, the audit write
\* when it failed.
Advance(at, passed) ==
    IF ~passed THEN "AUDIT" ELSE Stages[IndexOf(Stages, at) + 1]

StageOfAuth(at) ==
    CASE at = "LOOKUP" -> "REGISTRY"
      [] at = "PERMISSION" -> "AUTH"
      [] at = "VALIDATE_INPUT" -> "VALIDATION"
      [] at = "EXECUTE" -> "EXECUTION"
      [] at = "VALIDATE_OUTPUT" -> "OUTPUT"

\* The stage recorded for a failure of each pipeline step.
StageOf(at) ==
    CASE at = "LOOKUP" -> "REGISTRY"
      [] at = "PERMISSION" -> "PERMISSION"
      [] at = "VALIDATE_INPUT" -> "VALIDATION"
      [] at = "EXECUTE" -> "EXECUTION"
      [] at = "VALIDATE_OUTPUT" -> "OUTPUT"

DecisionOnFailureAllDenied(stage) == "DENIED"

\* DENIED for registry, permission and input failures; ERROR for execution and
\* output failures.
DecisionOnFailure(stage) ==
    IF stage \in {"REGISTRY", "PERMISSION", "VALIDATION"} THEN "DENIED" ELSE "ERROR"

\* Audit modes: production (default) and debug
Production == [debug |-> FALSE]

Debug == [debug |-> TRUE]

\* No component operation invoked on its own.
NoUnit == [op |-> "none", in |-> <<>>, out |-> <<>>]

NoReq == [toolName |-> "", args |-> NullArgs, caller |-> [sub |-> "", permissions |-> {}]]

NoState ==
    [ tool |-> NoTool, decision |-> "", stage |-> "", detail |-> NoDetail,
      exec |-> NoExec, redactedPaths |-> {} ]

Init ==
    /\ registry = Catalog
    /\ pc = [c \in Calls |-> "IDLE"]
    /\ req = [c \in Calls |-> NoReq]
    /\ st = [c \in Calls |-> NoState]
    /\ result = [c \in Calls |-> NoResult]
    /\ handlerRuns = [c \in Calls |-> 0]
    /\ auditLog = <<>>
    /\ auditFile = <<>>
    /\ stderr = <<>>
    /\ auditQueue = <<>>
    /\ unit = NoUnit
    /\ config \in {Production, Debug}

\* A failing step: the decision, the error returned, and on to the audit write.
Failed(c, at, detail, message, details) ==
    /\ st' = [st EXCEPT ![c].decision = DecisionOnFailure(StageOf(at)),
                        ![c].stage = StageOf(at),
                        ![c].detail = detail]
    /\ result' = [result EXCEPT ![c] =
                      Err(ErrorCode(at), message, StageOf(at), details)]
    /\ pc' = [pc EXCEPT ![c] = Advance(at, FALSE)]

\* proxy.call(toolName, args, callerContext) is invoked.
Call(c, name, args, caller) ==
    /\ pc[c] = "IDLE"
    /\ \A d \in Calls : pc[d] \in {"IDLE", "DONE"}
    /\ \A d \in Calls : d < c => pc[d] = "DONE"
    /\ req' = [req EXCEPT ![c] = [toolName |-> name, args |-> args, caller |-> caller]]
    /\ pc' = [pc EXCEPT ![c] = "LOOKUP"]
    /\ UNCHANGED <<config, auditQueue, unit, registry, st, result, handlerRuns, auditLog, auditFile, stderr>>

LookupSharedTool(c) ==
    /\ pc[c] = "LOOKUP"
    /\ LET tool == RegistryGet(registry, req[c].toolName)
       IN  IF tool = NoTool
           THEN Failed(c, "LOOKUP", NoDetail,
                       Generic("tool not registered"), <<>>)
           ELSE /\ st' = [d \in DOMAIN st |-> [st[d] EXCEPT !.tool = tool]]
                /\ pc' = [pc EXCEPT ![c] = Advance("LOOKUP", TRUE)]
                /\ UNCHANGED result
    /\ UNCHANGED <<config, auditQueue, unit, registry, req, handlerRuns, auditLog, auditFile, stderr>>

\* 1. registry.get(toolName) -> DENIED if not found
Lookup(c) ==
    /\ pc[c] = "LOOKUP"
    /\ LET tool == RegistryGet(registry, req[c].toolName)
       IN  IF tool = NoTool
           THEN Failed(c, "LOOKUP", NoDetail,
                       Generic("tool not registered"), <<>>)
           ELSE /\ st' = [st EXCEPT ![c].tool = tool]
                /\ pc' = [pc EXCEPT ![c] = Advance("LOOKUP", TRUE)]
                /\ UNCHANGED result
    /\ UNCHANGED <<config, auditQueue, unit, registry, req, handlerRuns, auditLog, auditFile, stderr>>

\* 2. permissionEngine.check(...) -> DENIED if unauthorized
Permission(c) ==
    /\ pc[c] = "PERMISSION"
    /\ LET check == checkPermissions(req[c].caller, st[c].tool, req[c].args)
       IN  IF ~check.allowed
           THEN Failed(c, "PERMISSION",
                       [NoDetail EXCEPT !.missing = check.missingPermissions],
                       PermissionMessage(check.missingPermissions), <<>>)
           ELSE /\ pc' = [pc EXCEPT ![c] = Advance("PERMISSION", TRUE)]
                /\ UNCHANGED <<st, result>>
    /\ UNCHANGED <<config, auditQueue, unit, registry, req, handlerRuns, auditLog, auditFile, stderr>>

\* 3. schemaValidator.input(...) -> DENIED if invalid args
ValidateInput(c) ==
    /\ pc[c] = "VALIDATE_INPUT"
    /\ LET v == validateInput(st[c].tool.input, req[c].args)
       IN  IF ~v.ok
           THEN Failed(c, "VALIDATE_INPUT",
                       [NoDetail EXCEPT !.errors = v.errors],
                       Generic("invalid input"), v.errors)
           ELSE /\ pc' = [pc EXCEPT ![c] = Advance("VALIDATE_INPUT", TRUE)]
                /\ UNCHANGED <<st, result>>
    /\ UNCHANGED <<config, auditQueue, unit, registry, req, handlerRuns, auditLog, auditFile, stderr>>

ExecuteTimeoutAsOutput(c) ==
    /\ pc[c] = "EXECUTE"
    /\ handlerRuns' = [handlerRuns EXCEPT ![c] = @ + 1]
    /\ \E o \in ExecOutcomes(st[c].tool) :
          IF o.kind = "exit"
          THEN Failed(c, "EXECUTE",
                      [NoDetail EXCEPT !.exitCode = o.exitCode, !.kind = o.kind],
                      ExecutionMessage(o), <<>>)
          ELSE /\ st' = [st EXCEPT ![c].exec = o, ![c].detail.kind = o.kind]
               /\ pc' = [pc EXCEPT ![c] = Advance("EXECUTE", TRUE)]
               /\ UNCHANGED result
    /\ UNCHANGED <<config, auditQueue, unit, registry, req, auditLog, auditFile, stderr>>

\* 4. handler.execute(args, ctx) -> ERROR if execution fails
Execute(c) ==
    /\ pc[c] = "EXECUTE"
    /\ handlerRuns' = [handlerRuns EXCEPT ![c] = @ + 1]
    /\ \E o \in ExecOutcomes(st[c].tool) :
          IF o.kind # "ok"
          THEN Failed(c, "EXECUTE",
                      [NoDetail EXCEPT !.exitCode = o.exitCode, !.kind = o.kind],
                      ExecutionMessage(o), <<>>)
          ELSE /\ st' = [st EXCEPT ![c].exec = o]
               /\ pc' = [pc EXCEPT ![c] = Advance("EXECUTE", TRUE)]
               /\ UNCHANGED result
    /\ UNCHANGED <<config, auditQueue, unit, registry, req, auditLog, auditFile, stderr>>

\* 5. schemaValidator.output(...) -> ERROR if unexpected response
ValidateOutput(c) ==
    /\ pc[c] = "VALIDATE_OUTPUT"
    /\ LET v == validateOutput(st[c].tool.outputFields, st[c].exec.output)
       IN  IF ~v.ok
           THEN Failed(c, "VALIDATE_OUTPUT",
                       [NoDetail EXCEPT !.missingFields = v.missingFields],
                       Generic("internal error"), <<>>)
           ELSE /\ pc' = [pc EXCEPT ![c] = Advance("VALIDATE_OUTPUT", TRUE)]
                /\ UNCHANGED <<st, result>>
    /\ UNCHANGED <<config, auditQueue, unit, registry, req, handlerRuns, auditLog, auditFile, stderr>>

\* 6. outputPolicy.filter(...) -> strip/mask fields
FilterOutput(c) ==
    /\ pc[c] = "FILTER_OUTPUT"
    /\ LET f == filterOutput(st[c].exec.output, st[c].tool.outputPolicy)
       IN  /\ st' = [st EXCEPT ![c].decision = "ALLOWED",
                               ![c].redactedPaths = f.redactedPaths]
           /\ result' = [result EXCEPT ![c] = Ok(f.filtered)]
    /\ pc' = [pc EXCEPT ![c] = Advance("FILTER_OUTPUT", TRUE)]
    /\ UNCHANGED <<config, auditQueue, unit, registry, req, handlerRuns, auditLog, auditFile, stderr>>

AuditThrows(c) ==
    /\ pc[c] = "AUDIT"
    /\ LET entry == AuditEntry(c, req[c], st[c])
       IN  /\ auditLog' = Append(auditLog, entry)
           /\ \/ /\ auditFile' = Append(auditFile, entry)
                 /\ UNCHANGED <<stderr, result>>
              \/ /\ stderr' = Append(stderr, c)
                 /\ result' = [result EXCEPT ![c] =
                                  Err("ExecutionFailure", Generic("internal error"),
                                      "EXECUTION", <<>>)]
                 /\ UNCHANGED auditFile
    /\ pc' = [pc EXCEPT ![c] = Advance("AUDIT", TRUE)]
    /\ UNCHANGED <<config, auditQueue, unit, registry, req, st, handlerRuns>>

\* 7. auditLogger.log(...) -> always, on every path; 8. return the result.
\* The write is fire-and-forget: a failure goes to stderr.
Audit(c) ==
    /\ pc[c] = "AUDIT"
    /\ LET entry == AuditEntry(c, req[c], st[c])
       IN  /\ auditLog' = Append(auditLog, entry)
           /\ \/ /\ auditFile' = Append(auditFile, entry)
                 /\ UNCHANGED stderr
              \/ /\ stderr' = Append(stderr, c)
                 /\ UNCHANGED auditFile
    /\ pc' = [pc EXCEPT ![c] = Advance("AUDIT", TRUE)]
    /\ UNCHANGED <<config, auditQueue, unit, registry, req, st, result, handlerRuns>>

Next ==
    \/ \E c \in Calls, name \in ToolNames, args \in RawArgs, caller \in Callers :
          Call(c, name, args, caller)
    \/ \E c \in Calls : Lookup(c)
    \/ \E c \in Calls : Permission(c)
    \/ \E c \in Calls : ValidateInput(c)
    \/ \E c \in Calls : Execute(c)
    \/ \E c \in Calls : ValidateOutput(c)
    \/ \E c \in Calls : FilterOutput(c)
    \/ \E c \in Calls : Audit(c)

Spec == Init /\ [][Next]_vars

-----------------------------------------------------------------------------
(* The permission engine over generated tools, callers and raw inputs      *)

PermissionUniverse ==
    { "customer-data:write", "customer-data:lifecycle:destructive", "ops:write",
      "OPS:WRITE", "allow_destructive" }

GeneratedTools ==
    { [ name |-> "generated_tool", classification |-> cl, required |-> rq,
        elevatedIf |-> el[1], elevatedPermissions |-> el[2],
        input |-> [field |-> "newStatus", enum |-> {"ACTIVE", "OFFBOARDED"}],
        piiFields |-> {},
        outputFields |-> {<<"status">>},
        outputPolicy |-> << [pattern |-> Path(<<"status">>), rule |-> "allow"] >> ] :
      cl \in {"read", "write", "destructive"},
      rq \in {{"ops:write"}, {"customer-data:write", "ops:write"}},
      el \in { <<"none", {}>>,
               <<"newStatusIsOffboarded", {"customer-data:lifecycle:destructive"}>>,
               <<"newStatusIsOffboarded", {"customer-data:lifecycle:destructive",
                                           "allow_destructive"}>> } }

InitPermission ==
    /\ registry \in {<<t>> : t \in GeneratedTools}
    /\ pc = [c \in Calls |-> "IDLE"]
    /\ req = [c \in Calls |-> NoReq]
    /\ st = [c \in Calls |-> NoState]
    /\ result = [c \in Calls |-> NoResult]
    /\ handlerRuns = [c \in Calls |-> 0]
    /\ auditLog = <<>>
    /\ auditFile = <<>>
    /\ stderr = <<>>
    /\ auditQueue = <<>>
    /\ unit = NoUnit
    /\ config = Production

NextPermission ==
    \/ \E held \in SUBSET PermissionUniverse, args \in RawArgs :
          Call(1, "generated_tool", args, [sub |-> "generated", permissions |-> held])
    \/ Lookup(1)
    \/ Permission(1)

SpecPermission == InitPermission /\ [][NextPermission]_vars

-----------------------------------------------------------------------------
(* The output policy engine over generated outputs and policies           *)
(* (output-policy.test.ts: allow, mask, redact, nested fields, glob        *)
(* patterns, default-deny)                                                 *)

\* Number of rules in a generated policy.
MaxRules == 2

FilterPatterns ==
    { Path(<<"customer", "email">>),
      Path(<<"customer", "name", "first_name">>),
      Path(<<"customer", "name">>),
      Path(<<"customer", "*">>),
      Path(<<"*", "email">>),
      Path(<<"customer", "phones", "[]", "number">>),
      Recursive("first_name"),
      CatchAll }

FilterRules ==
    {[pattern |-> pt, rule |-> r] : pt \in FilterPatterns, r \in {"allow", "mask", "redact"}}

\* A policy is a map from pattern to rule: no pattern twice.
FilterPolicies ==
    { p \in UNION {[1..n -> FilterRules] : n \in 0..MaxRules} :
        \A i, j \in 1..Len(p) : p[i].pattern = p[j].pattern => i = j }

FilterData ==
    { (<<"customer", "id">> :> <<"1">>)
          @@ (<<"customer", "email">> :> <<"a", "@", "b", ".", "c", "o", "m">>),
      (<<"customer", "id">> :> <<"1">>)
          @@ (<<"customer", "name", "first_name">> :> <<"J", "o">>)
          @@ (<<"customer", "name", "last_name">> :> <<"S", "m", "i", "t", "h">>),
      (<<"customer", "phones", "[0]", "number">> :> <<"5", "5", "5">>)
          @@ (<<"customer", "phones", "[1]", "number">> :> <<"7">>)
          @@ (<<"first_name">> :> <<"A", "n", "n">>),
      (<<"status">> :> <<"O", "K">>),
      NoOutput }

InitFilter ==
    /\ registry = <<>>
    /\ pc = [c \in Calls |-> "IDLE"]
    /\ req = [c \in Calls |-> NoReq]
    /\ st = [c \in Calls |-> NoState]
    /\ result = [c \in Calls |-> NoResult]
    /\ handlerRuns = [c \in Calls |-> 0]
    /\ auditLog = <<>>
    /\ auditFile = <<>>
    /\ stderr = <<>>
    /\ auditQueue = <<>>
    /\ config = Production
    /\ unit \in {[op |-> "filterOutput", in |-> [data |-> d, policy |-> p], out |-> <<>>] :
                    d \in FilterData, p \in FilterPolicies}

\* filterOutput(data, policy) is applied to the generated pair.
ApplyFilter ==
    /\ unit.op = "filterOutput"
    /\ unit' = [unit EXCEPT !.op = "filtered",
                            !.out = filterOutput(unit.in.data, unit.in.policy)]
    /\ UNCHANGED <<config, auditQueue, registry, pc, req, st, result, handlerRuns, auditLog, auditFile, stderr>>

NextFilter == ApplyFilter

SpecFilter == InitFilter /\ [][NextFilter]_vars

-----------------------------------------------------------------------------
(* The mask rule over generated strings, applied and re-applied           *)

\* Length of a generated string.
MaxLen == 3

\* Number of times the filter is applied to a value.
MaxFilterings == 3

Chars == {"a", "b", "*"}

Strings == UNION {[1..n -> Chars] : n \in 0..MaxLen}

MaskPolicy == << [pattern |-> Path(<<"fullName">>), rule |-> "mask"] >>

InitMask ==
    /\ registry = <<>>
    /\ pc = [c \in Calls |-> "IDLE"]
    /\ req = [c \in Calls |-> NoReq]
    /\ st = [c \in Calls |-> NoState]
    /\ result = [c \in Calls |-> NoResult]
    /\ handlerRuns = [c \in Calls |-> 0]
    /\ auditLog = <<>>
    /\ auditFile = <<>>
    /\ stderr = <<>>
    /\ auditQueue = <<>>
    /\ config = Production
    /\ unit \in {[op |-> "mask", in |-> s,
                  out |-> [data |-> (<<"fullName">> :> s), once |-> NoOutput, times |-> 0]] :
                    s \in Strings}

\* The output policy with a mask rule is applied to the value, or to the
\* result of the previous filtering.
Remask ==
    /\ unit.op = "mask"
    /\ unit.out.times < MaxFilterings
    /\ LET f == filterOutput(unit.out.data, MaskPolicy).filtered
       IN  unit' = [unit EXCEPT !.out = [data |-> f,
                                         once |-> IF unit.out.times = 0 THEN f
                                                  ELSE unit.out.once,
                                         times |-> unit.out.times + 1]]
    /\ UNCHANGED <<config, auditQueue, registry, pc, req, st, result, handlerRuns, auditLog, auditFile, stderr>>

NextMask == Remask

SpecMask == InitMask /\ [][NextMask]_vars

-----------------------------------------------------------------------------
(* The tool registry: register, get and list invoked on their own         *)
(* (registry.test.ts: register, lookup, duplicate rejection, list)         *)

\* Number of register calls.
MaxRegistrations == 3

\* Definitions offered for registration: two of them share a name.
RegistryDefs ==
    { update_customer_status, list_files, argocd_sync,
      [list_files EXCEPT !.classification = "destructive",
                         !.required = {"files:write"}] }

InitRegistry ==
    /\ registry = <<>>
    /\ pc = [c \in Calls |-> "IDLE"]
    /\ req = [c \in Calls |-> NoReq]
    /\ st = [c \in Calls |-> NoState]
    /\ result = [c \in Calls |-> NoResult]
    /\ handlerRuns = [c \in Calls |-> 0]
    /\ auditLog = <<>>
    /\ auditFile = <<>>
    /\ stderr = <<>>
    /\ auditQueue = <<>>
    /\ config = Production
    /\ unit = [op |-> "registry", in |-> [arg |-> <<>>, registered |-> <<>>], out |-> <<>>]

IsRegistryUnit == unit.op \in {"registry", "register", "get", "list"}

\* registry.register(tool)
Register(tool) ==
    /\ IsRegistryUnit
    /\ Len(unit.in.registered) < MaxRegistrations
    /\ LET r == register(registry, tool)
       IN  /\ registry' = r.registry
           /\ unit' = [op |-> "register",
                       in |-> [arg |-> tool,
                               registered |-> Append(unit.in.registered, tool)],
                       out |-> r.error]
    /\ UNCHANGED <<config, auditQueue, pc, req, st, result, handlerRuns, auditLog, auditFile, stderr>>

\* registry.get(name)
Get(name) ==
    /\ IsRegistryUnit
    /\ unit' = [op |-> "get",
                in |-> [arg |-> name, registered |-> unit.in.registered],
                out |-> RegistryGet(registry, name)]
    /\ UNCHANGED <<config, auditQueue, registry, pc, req, st, result, handlerRuns, auditLog, auditFile, stderr>>

\* registry.list()
List ==
    /\ IsRegistryUnit
    /\ unit' = [op |-> "list",
                in |-> [arg |-> <<>>, registered |-> unit.in.registered],
                out |-> RegistryList(registry)]
    /\ UNCHANGED <<config, auditQueue, registry, pc, req, st, result, handlerRuns, auditLog, auditFile, stderr>>

NextRegistry ==
    \/ \E tool \in RegistryDefs : Register(tool)
    \/ \E name \in ToolNames : Get(name)
    \/ List

SpecRegistry == InitRegistry /\ [][NextRegistry]_vars

\* SafeToolCall.create({ tools, ... }) returns the proxy instance: tools are
\* loaded statically at startup, none is added or removed afterwards.
Serve ==
    /\ IsRegistryUnit
    /\ unit' = NoUnit
    /\ UNCHANGED <<config, auditQueue, registry, pc, req, st, result, handlerRuns, auditLog, auditFile, stderr>>

Serving == unit.op = "none"

\* Definitions given to SafeToolCall.create as `tools`: two share a name.
StartupTools ==
    { update_customer_status, list_files,
      [list_files EXCEPT !.classification = "destructive",
                         !.required = {"files:write"}] }

\* Startup followed by calls through the proxy instance.
NextStartup ==
    \/ \E tool \in StartupTools : Register(tool)
    \/ \E name \in ToolNames : Get(name)
    \/ List
    \/ Serve
    \/ (Serving /\ Next)

SpecStartup == InitRegistry /\ [][NextStartup]_vars

-----------------------------------------------------------------------------
(* Parallel calls and the audit writer                                     *)
(* call(...) returns a Promise: calls are in flight together and their     *)
(* steps interleave; auditLogger.log is fire-and-forget.                   *)

\* Number of calls in flight together.
MaxParallel == 2

ParallelCalls == 1..MaxParallel

\* Capacity of the internal queue between the call path and the audit writer.
MaxQueue == 2

CallerOf(sub) == CHOOSE caller \in Callers : caller.sub = sub

\* Requests made in parallel: a call that reaches the handler and a
\* permission denial, of different tools and callers.
ParallelRequests ==
    { [toolName |-> "list_files", args |-> Obj("directory", "/app/src"),
       caller |-> CallerOf("cb-dev")],
      [toolName |-> "update_customer_status", args |-> Obj("newStatus", "OFFBOARDED"),
       caller |-> CallerOf("support-agent")] }

\* The entry of an earlier call (of an unregistered tool, trace id 0) that
\* is still waiting for the writer when the calls begin.
Backlog ==
    [ traceId |-> 0,
      caller |-> CallerOf("cb-dev"),
      tool |-> [name |-> "execute_shell_command",
                classification |-> NoTool.classification],
      request |-> [argsHash |-> argsHash(NullArgs), args |-> <<>>],
      decision |-> "DENIED",
      denial |-> [reason |-> NoDetail, stage |-> "REGISTRY"],
      response |-> NoResponse ]

\* The proxy is serving: the calls begin with the entry of an earlier call
\* still queued (the writer may take it before any of them is dispatched).
InitParallel ==
    /\ registry = Catalog
    /\ pc = [c \in ParallelCalls |-> "IDLE"]
    /\ req = [c \in ParallelCalls |-> NoReq]
    /\ st = [c \in ParallelCalls |-> NoState]
    /\ result = [c \in ParallelCalls |-> NoResult]
    /\ handlerRuns = [c \in ParallelCalls |-> 0]
    /\ auditQueue = <<Backlog>>
    /\ auditLog = auditQueue
    /\ auditFile = <<>>
    /\ stderr = <<>>
    /\ unit = NoUnit
    /\ config = Production

\* proxy.call(toolName, args, callerContext) is invoked while other calls are
\* in flight; trace ids number the calls in the order they are invoked.
Begin(c, r) ==
    /\ pc[c] = "IDLE"
    /\ \A d \in ParallelCalls : d < c => pc[d] # "IDLE"
    /\ req' = [req EXCEPT ![c] = r]
    /\ pc' = [pc EXCEPT ![c] = "LOOKUP"]
    /\ UNCHANGED <<config, auditQueue, unit, registry, st, result, handlerRuns, auditLog, auditFile, stderr>>

DispatchWaitsForRoom(c) ==
    /\ pc[c] = "AUDIT"
    /\ Len(auditQueue) < MaxQueue
    /\ LET entry == AuditEntry(c, req[c], st[c])
       IN  /\ auditLog' = Append(auditLog, entry)
           /\ auditQueue' = Append(auditQueue, entry)
           /\ UNCHANGED stderr
    /\ pc' = [pc EXCEPT ![c] = Advance("AUDIT", TRUE)]
    /\ UNCHANGED <<config, unit, registry, req, st, result, handlerRuns, auditFile>>

\* 7. auditLogger.log(...) with the write decoupled from the call path: the
\* entry is built from the pipeline state and handed to the writer's queue,
\* and the call returns; an entry that finds the queue full is reported on
\* stderr and the call returns all the same.
Dispatch(c) ==
    /\ pc[c] = "AUDIT"
    /\ LET entry == AuditEntry(c, req[c], st[c])
       IN  /\ auditLog' = Append(auditLog, entry)
           /\ IF Len(auditQueue) < MaxQueue
              THEN auditQueue' = Append(auditQueue, entry) /\ UNCHANGED stderr
              ELSE stderr' = Append(stderr, c) /\ UNCHANGED auditQueue
    /\ pc' = [pc EXCEPT ![c] = Advance("AUDIT", TRUE)]
    /\ UNCHANGED <<config, unit, registry, req, st, result, handlerRuns, auditFile>>

WriteNewestFirst ==
    /\ auditQueue # <<>>
    /\ LET entry == auditQueue[Len(auditQueue)]
       IN  \/ auditFile' = Append(auditFile, entry) /\ UNCHANGED stderr
           \/ stderr' = Append(stderr, entry.traceId) /\ UNCHANGED auditFile
    /\ auditQueue' = SubSeq(auditQueue, 1, Len(auditQueue) - 1)
    /\ UNCHANGED <<config, unit, registry, pc, req, st, result, handlerRuns, auditLog>>

\* The single writer of the destination takes the oldest queued entry and
\* appends it as one JSON line; a write failure is logged to stderr.
Write ==
    /\ auditQueue # <<>>
    /\ LET entry == Head(auditQueue)
       IN  \/ auditFile' = Append(auditFile, entry) /\ UNCHANGED stderr
           \/ stderr' = Append(stderr, entry.traceId) /\ UNCHANGED auditFile
    /\ auditQueue' = Tail(auditQueue)
    /\ UNCHANGED <<config, unit, registry, pc, req, st, result, handlerRuns, auditLog>>

\* The steps of one call, from the lookup to the return.
CallStep(c) ==
    \/ Lookup(c)
    \/ Permission(c)
    \/ ValidateInput(c)
    \/ Execute(c)
    \/ ValidateOutput(c)
    \/ FilterOutput(c)
    \/ Dispatch(c)

NextParallel ==
    \/ \E c \in ParallelCalls, r \in ParallelRequests : Begin(c, r)
    \/ \E c \in ParallelCalls : CallStep(c)
    \/ Write

SpecParallel == InitParallel /\ [][NextParallel]_vars

\* The event loop runs the calls in flight: while a step of some call is
\* possible, a step of some call is taken. Nothing is assumed of the writer.
SpecParallelLive ==
    InitParallel /\ [][NextParallel]_vars
        /\ WF_vars(\E c \in ParallelCalls : CallStep(c))

-----------------------------------------------------------------------------
(* Properties                                                              *)

EntriesOf(c) == {i \in 1..Len(auditLog) : auditLog[i].traceId = c}

\* What the gates, applied in the documented order to a request, decide:
\* the stage of the earliest gate that rejects it, or "NONE".
EarliestRejection(r) ==
    LET tool == RegistryGet(registry, r.toolName)
    IN  IF tool = NoTool THEN "REGISTRY"
        ELSE IF ~checkPermissions(r.caller, tool, r.args).allowed THEN "PERMISSION"
        ELSE IF ~validateInput(tool.input, r.args).ok THEN "VALIDATION"
        ELSE "NONE"

\* C1: every call that has reached DONE has exactly one audit entry, whatever
\* stage failed or none, and no call ever has two.
C1_ExactlyOneAuditEntry ==
    \A c \in Calls :
        /\ Cardinality(EntriesOf(c)) <= 1
        /\ pc[c] = "DONE" => Cardinality(EntriesOf(c)) = 1
        /\ pc[c] \in {"IDLE", "LOOKUP"} => EntriesOf(c) = {}

\* C1 witness: a call rejected at the first gate is DONE with its one entry.
C1_Witness ==
    \E c \in Calls :
        /\ pc[c] = "DONE"
        /\ st[c].stage = "REGISTRY"
        /\ Cardinality(EntriesOf(c)) = 1

\* C2: the handler has run for a call only if the lookup found the tool, the
\* permission check allowed the caller and the input validated; a call that
\* failed at REGISTRY, PERMISSION or VALIDATION never ran the handler.
C2_HandlerOnlyAfterGates ==
    \A c \in Calls :
        /\ handlerRuns[c] > 0 => EarliestRejection(req[c]) = "NONE"
        /\ pc[c] \in {"EXECUTE", "VALIDATE_OUTPUT", "FILTER_OUTPUT"}
              => EarliestRejection(req[c]) = "NONE"
        /\ st[c].stage \in {"REGISTRY", "PERMISSION", "VALIDATION"}
              => handlerRuns[c] = 0 /\ st[c].exec = NoExec

\* C2 witness: list_files with a directory outside its enum, from a caller who
\* may list files, is DONE as a VALIDATION failure and the handler never ran.
C2_Witness ==
    \E c \in Calls :
        /\ pc[c] = "DONE"
        /\ req[c].toolName = "list_files"
        /\ req[c].args = Obj("directory", "/etc")
        /\ st[c].stage = "VALIDATION"
        /\ handlerRuns[c] = 0

GateSteps ==
    {"LOOKUP", "PERMISSION", "VALIDATE_INPUT", "EXECUTE", "VALIDATE_OUTPUT"}

\* One pipeline step of call c is legal: it enters LOOKUP, or moves to the next
\* state in order without a failure recorded, or jumps from a gate to AUDIT
\* with the failure of exactly that gate recorded.
C3_Step(c) ==
    pc'[c] # pc[c] =>
        \/ pc[c] = "IDLE" /\ pc'[c] = "LOOKUP"
        \/ /\ pc[c] # "IDLE" /\ pc[c] # "DONE"
           /\ pc'[c] = Stages[IndexOf(Stages, pc[c]) + 1]
           /\ pc[c] \in GateSteps => ~result'[c].set
        \/ /\ pc[c] \in GateSteps
           /\ pc'[c] = "AUDIT"
           /\ result'[c].set /\ ~result'[c].ok
           /\ ~result[c].set

\* The failure reported is that of the earliest gate that rejects the request.
C3_Earliest ==
    \A c \in Calls :
        /\ result[c].set /\ ~result[c].ok /\ EarliestRejection(req[c]) # "NONE"
              => result[c].error.stage = EarliestRejection(req[c])
        /\ pc[c] = "VALIDATE_INPUT" => EarliestRejection(req[c]) \notin {"REGISTRY", "PERMISSION"}
        /\ pc[c] = "PERMISSION" => EarliestRejection(req[c]) # "REGISTRY"

C4_DecisionByStage ==
    \A i \in 1..Len(auditLog) :
        LET e == auditLog[i]
            c == e.traceId
        IN  /\ e.decision \in {"ALLOWED", "DENIED", "ERROR"}
            /\ e.decision = "DENIED"
                  <=> st[c].stage \in {"REGISTRY", "PERMISSION", "VALIDATION"}
            /\ e.decision = "ERROR" <=> st[c].stage \in {"EXECUTION", "OUTPUT"}
            /\ e.decision = "ALLOWED" <=> (result[c].ok /\ st[c].stage = "")
            /\ st[c].detail.kind = "timeout" => e.decision = "ERROR"

\* C4 witness: the audit entry of a call whose handler timed out says ERROR.
C4_Witness ==
    \E i \in 1..Len(auditLog) :
        /\ st[auditLog[i].traceId].detail.kind = "timeout"
        /\ auditLog[i].decision = "ERROR"
        /\ auditLog[i].denial.stage = "EXECUTION"

\* The pipeline step at which call c failed, from its request and from what
\* its handler did.
FailingStep(c) ==
    CASE EarliestRejection(req[c]) = "REGISTRY" -> "LOOKUP"
      [] EarliestRejection(req[c]) = "PERMISSION" -> "PERMISSION"
      [] EarliestRejection(req[c]) = "VALIDATION" -> "VALIDATE_INPUT"
      [] OTHER -> IF st[c].detail.kind \in {"exit", "timeout"}
                  THEN "EXECUTE" ELSE "VALIDATE_OUTPUT"

\* The result of call c has the shape and the code/stage pair that `codes`
\* fixes for its failing step; an unregistered name gives NotFound with one
\* DENIED/REGISTRY audit entry; a success carries the filtered output.
ResultFixedBy(codes, c) ==
    /\ result[c].set /\ ~result[c].ok =>
          /\ result[c].data = NoOutput
          /\ <<result[c].error.code, result[c].error.stage>> = codes[FailingStep(c)]
    /\ result[c].set /\ result[c].ok =>
          /\ result[c].error = NoError
          /\ DOMAIN result[c].data =
                {p \in DOMAIN st[c].exec.output :
                    RuleFor(st[c].tool.outputPolicy, p) \in {"allow", "mask"}}
          /\ \A p \in DOMAIN result[c].data :
                RuleFor(st[c].tool.outputPolicy, p) = "allow"
                    => result[c].data[p] = st[c].exec.output[p]
    /\ pc[c] = "DONE" /\ RegistryGet(registry, req[c].toolName) = NoTool =>
          /\ result[c].error.code = "NotFound"
          /\ \E i \in 1..Len(auditLog) :
                /\ EntriesOf(c) = {i}
                /\ auditLog[i].decision = "DENIED"
                /\ auditLog[i].denial.stage = "REGISTRY"

CodesClaimed ==
    [ LOOKUP |-> <<"NotFound", "REGISTRY">>,
      PERMISSION |-> <<"Forbidden", "PERMISSION">>,
      VALIDATE_INPUT |-> <<"InvalidInput", "VALIDATION">>,
      EXECUTE |-> <<"ExecutionFailure", "EXECUTION">>,
      VALIDATE_OUTPUT |-> <<"InvalidOutput", "OUTPUT">> ]

CodesAmended == [CodesClaimed EXCEPT !.PERMISSION = <<"PERMISSION_DENIED", "PERMISSION">>]

\* C5 as claimed: every failure returns {ok: false, error: {code, message,
\* stage}} with LOOKUP -> NotFound/REGISTRY, PERMISSION -> Forbidden/PERMISSION,
\* VALIDATE_INPUT -> InvalidInput/VALIDATION, EXECUTE -> ExecutionFailure/
\* EXECUTION, VALIDATE_OUTPUT -> InvalidOutput/OUTPUT.
C5_Original == \A c \in Calls : ResultFixedBy(CodesClaimed, c)

\* C5 amended: the same, except that a PERMISSION failure carries the code
\* PERMISSION_DENIED.
C5_CodeAndStageFixed == \A c \in Calls : ResultFixedBy(CodesAmended, c)

\* C5 witness: a call denied by the permission check is DONE with
\* PERMISSION_DENIED / PERMISSION.
C5_Witness ==
    \E c \in Calls :
        /\ pc[c] = "DONE"
        /\ FailingStep(c) = "PERMISSION"
        /\ result[c].error.code = "PERMISSION_DENIED"
        /\ result[c].error.stage = "PERMISSION"

-----------------------------------------------------------------------------
(* Properties of the permission check                                      *)

Destructive(tool) ==
    IF tool.classification = "destructive" THEN {"allow_destructive"} ELSE {}

\* The required set with elevation added only when the rule evaluates to true.
RequiredSetWhenTrue(tool, args) ==
    tool.required \cup Destructive(tool)
    \cup (IF tool.elevatedIf # "none" /\ EvalElevatedIf(tool, args) = "true"
          THEN tool.elevatedPermissions ELSE {})

\* The required set with elevation added when the rule evaluates to true or
\* raises an error.
RequiredSet(tool, args) ==
    tool.required \cup Destructive(tool)
    \cup (IF tool.elevatedIf # "none" /\ EvalElevatedIf(tool, args) \in {"true", "throws"}
          THEN tool.elevatedPermissions ELSE {})

PermissionAllowed(c) == pc[c] = "VALIDATE_INPUT"

PermissionDenied(c) == pc[c] = "AUDIT" /\ st[c].stage = "PERMISSION"

\* C6 as claimed: allowed iff the caller holds every element of required +
\* allow_destructive (destructive) + elevatedPermissions (rule true on input).
C6_Original ==
    \A c \in Calls :
        /\ PermissionAllowed(c) =>
              RequiredSetWhenTrue(st[c].tool, req[c].args) \subseteq req[c].caller.permissions
        /\ PermissionDenied(c) =>
              ~(RequiredSetWhenTrue(st[c].tool, req[c].args) \subseteq req[c].caller.permissions)

\* C6 amended: allowed iff the caller holds, by exact string equality, every
\* element of required + allow_destructive (destructive) + elevatedPermissions
\* (rule true, or raising an error, on the raw input).
C6_AllowedIffSuperset ==
    \A c \in Calls :
        /\ PermissionAllowed(c) =>
              RequiredSet(st[c].tool, req[c].args) \subseteq req[c].caller.permissions
        /\ PermissionDenied(c) =>
              ~(RequiredSet(st[c].tool, req[c].args) \subseteq req[c].caller.permissions)

\* C6 witness: a caller holding OPS:WRITE, but not ops:write, is denied a read
\* tool that requires ops:write.
C6_Witness ==
    \E c \in Calls :
        /\ PermissionDenied(c)
        /\ st[c].tool.required = {"ops:write"}
        /\ st[c].tool.classification = "read"
        /\ st[c].tool.elevatedIf = "none"
        /\ req[c].caller.permissions = {"OPS:WRITE"}

\* C7: on denial, missing = required set \ caller.permissions; a destructive
\* tool requiring ops:write, called by a holder of only ops:write, is denied
\* at PERMISSION with allow_destructive among the missing.
C7_MissingIsDifference ==
    \A c \in Calls :
        /\ PermissionDenied(c) =>
              /\ st[c].detail.missing =
                    RequiredSet(st[c].tool, req[c].args) \ req[c].caller.permissions
              /\ st[c].detail.missing # {}
              /\ result[c].error.stage = "PERMISSION"
        /\ ( /\ pc[c] \in {"VALIDATE_INPUT", "AUDIT"}
             /\ st[c].tool.classification = "destructive"
             /\ st[c].tool.required = {"ops:write"}
             /\ req[c].caller.permissions = {"ops:write"} )
              => PermissionDenied(c) /\ "allow_destructive" \in st[c].detail.missing

\* C7 witness: that destructive call, denied with missing = {allow_destructive}.
C7_Witness ==
    \E c \in Calls :
        /\ PermissionDenied(c)
        /\ st[c].tool.classification = "destructive"
        /\ st[c].tool.required = {"ops:write"}
        /\ req[c].caller.permissions = {"ops:write"}
        /\ st[c].detail.missing = {"allow_destructive"}

\* C8: when the elevation predicate raises an error on the raw input, the
\* elevated permissions are required: a call is allowed only if the caller
\* holds them all, and a caller lacking one is denied with it among the missing.
C8_FailClosed ==
    \A c \in Calls :
        EvalElevatedIf(st[c].tool, req[c].args) = "throws" =>
            /\ PermissionAllowed(c) =>
                  st[c].tool.elevatedPermissions \subseteq req[c].caller.permissions
            /\ ( /\ pc[c] \in {"VALIDATE_INPUT", "AUDIT"}
                 /\ ~(st[c].tool.elevatedPermissions \subseteq req[c].caller.permissions) )
                  => /\ PermissionDenied(c)
                     /\ (st[c].tool.elevatedPermissions \ req[c].caller.permissions)
                            \subseteq st[c].detail.missing

\* C8 witness: the predicate raised an error, the caller holds the base
\* permissions only, and the call is denied for the elevated one.
C8_Witness ==
    \E c \in Calls :
        /\ EvalElevatedIf(st[c].tool, req[c].args) = "throws"
        /\ (st[c].tool.required \cup Destructive(st[c].tool))
               \subseteq req[c].caller.permissions
        /\ PermissionDenied(c)
        /\ st[c].detail.missing = {"customer-data:lifecycle:destructive"}

-----------------------------------------------------------------------------
(* Properties of what the caller sees                                      *)

\* C9: a permission failure returned to the caller carries only the generic
\* "operation not permitted" message and never the names of the missing
\* permissions, so it is the same whatever the caller lacks.
C9_GenericForbidden ==
    \A c \in Calls :
        result[c].set /\ result[c].error.stage = "PERMISSION" =>
            /\ result[c].error.message = Generic("operation not permitted")
            /\ result[c].error.message.names \cap st[c].detail.missing = {}
            /\ result[c].error.details = <<>>

\* C10: an input-validation failure returns the validator's field errors
\* verbatim, and no other failure returns anything of what went wrong.
C10_OnlyInvalidInputDetailed ==
    \A c \in Calls :
        result[c].set /\ ~result[c].ok =>
            /\ result[c].error.stage = "VALIDATION" =>
                  /\ result[c].error.details
                        = validateInput(st[c].tool.input, req[c].args).errors
                  /\ result[c].error.details # <<>>
            /\ result[c].error.stage # "VALIDATION" =>
                  /\ result[c].error.details = <<>>
                  /\ result[c].error.message.names = {}

-----------------------------------------------------------------------------
(* Properties of the output policy engine                                 *)

Filtered == unit.op = "filtered"

\* C12: every leaf of the output that no rule of the policy matches is absent
\* from the filtered result, every leaf of the result is a leaf of the output
\* that an allow or mask rule matches, and an empty policy gives an empty result.
C12_DefaultDeny ==
    Filtered =>
        LET data == unit.in.data
            policy == unit.in.policy
            filtered == unit.out.filtered
        IN  /\ \A leaf \in DOMAIN data :
                  (\A i \in 1..Len(policy) : ~Matches(policy[i].pattern, leaf))
                      => leaf \notin DOMAIN filtered
            /\ \A leaf \in DOMAIN filtered :
                  /\ leaf \in DOMAIN data
                  /\ \E i \in 1..Len(policy) :
                        /\ Matches(policy[i].pattern, leaf)
                        /\ policy[i].rule \in {"allow", "mask"}
            /\ policy = <<>> => DOMAIN filtered = {}

\* C12 witness: under a non-empty policy, a leaf no rule matches was stripped
\* while a matched leaf was kept.
C12_Witness ==
    /\ Filtered
    /\ unit.in.policy # <<>>
    /\ \E leaf \in DOMAIN unit.in.data :
          /\ \A i \in 1..Len(unit.in.policy) : ~Matches(unit.in.policy[i].pattern, leaf)
          /\ leaf \notin DOMAIN unit.out.filtered
    /\ DOMAIN unit.out.filtered # {}

ScenarioCPolicy ==
    << [pattern |-> Path(<<"customer", "email">>), rule |-> "redact"],
       [pattern |-> CatchAll, rule |-> "allow"] >>

ScenarioCOutput ==
    (<<"customer", "id">> :> <<"1">>)
    @@ (<<"customer", "email">> :> <<"a", "@", "b", ".", "c", "o", "m">>)

\* C13: the policy {".customer.email": "redact", "*": "allow"} applied to
\* {"customer": {"id": "1", "email": "a@b.com"}} gives {"customer": {"id": "1"}}
\* and the touched paths are exactly .customer.email.
C13_ScenarioC ==
    Filtered /\ unit.in.data = ScenarioCOutput /\ unit.in.policy = ScenarioCPolicy
        => /\ unit.out.filtered = (<<"customer", "id">> :> <<"1">>)
           /\ unit.out.redactedPaths = {<<"customer", "email">>}

\* C13 witness: the scenario's output filtered with the scenario's policy.
C13_Witness ==
    /\ Filtered
    /\ unit.in.data = ScenarioCOutput
    /\ unit.in.policy = ScenarioCPolicy
    /\ DOMAIN unit.out.filtered = {<<"customer", "id">>}

\* The structural class of a pattern: 3 exact path, 2 path with a single-level
\* wildcard, 1 recursive descent, 0 catch-all.
ClassRank(pattern) ==
    IF pattern.kind = "path"
    THEN (IF \E i \in 1..Len(pattern.segs) : pattern.segs[i] = "*" THEN 2 ELSE 3)
    ELSE IF pattern.kind = "recursive" THEN 1 ELSE 0

\* Rule i takes precedence over rule j: a higher class, or the same class and
\* a deeper path, or equal in both and declared first.
Precedes(policy, i, j) ==
    LET a == policy[i].pattern
        b == policy[j].pattern
    IN  \/ ClassRank(a) > ClassRank(b)
        \/ /\ ClassRank(a) = ClassRank(b)
           /\ \/ Len(a.segs) > Len(b.segs)
              \/ (Len(a.segs) = Len(b.segs) /\ i <= j)

\* The rule a leaf must get: the matching rule that precedes every other
\* matching rule.
Winner(policy, leaf) ==
    CHOOSE i \in 1..Len(policy) :
        /\ Matches(policy[i].pattern, leaf)
        /\ \A j \in 1..Len(policy) :
              Matches(policy[j].pattern, leaf) => Precedes(policy, i, j)

\* The filtered result treats the leaf as the rule says.
TreatedAs(rule, pattern, leaf) ==
    LET data == unit.in.data
        out == unit.out
    IN  CASE rule = "allow" ->
                /\ leaf \in DOMAIN out.filtered
                /\ out.filtered[leaf] = data[leaf]
                /\ leaf \notin out.redactedPaths
          [] rule = "redact" ->
                leaf \notin DOMAIN out.filtered /\ leaf \in out.redactedPaths
          [] rule = "mask" ->
                /\ leaf \in out.redactedPaths
                /\ IF EndsAtLeaf(pattern, leaf)
                   THEN leaf \in DOMAIN out.filtered
                        /\ out.filtered[leaf] = Mask(data[leaf])
                   ELSE leaf \notin DOMAIN out.filtered

\* C14: when several rules match a leaf, the rule applied is the one of the
\* most specific pattern (exact path, then single-level wildcard, then
\* recursive descent, the deeper path within a kind), the first declared among
\* equals; so .customer.name.first_name: allow overrides ..first_name: redact
\* in either declaration order, and the result is a function of output and
\* policy.
C14_MostSpecificWins ==
    Filtered =>
        LET data == unit.in.data
            policy == unit.in.policy
        IN  /\ \A leaf \in DOMAIN data :
                  (\E i \in 1..Len(policy) : Matches(policy[i].pattern, leaf)) =>
                      TreatedAs(policy[Winner(policy, leaf)].rule,
                                policy[Winner(policy, leaf)].pattern, leaf)
            /\ ( /\ <<"customer", "name", "first_name">> \in DOMAIN data
                 /\ \E i \in 1..Len(policy) :
                       policy[i] = [pattern |-> Path(<<"customer", "name", "first_name">>),
                                    rule |-> "allow"]
                 /\ \E i \in 1..Len(policy) :
                       policy[i] = [pattern |-> Recursive("first_name"), rule |-> "redact"] )
                  => unit.out.filtered[<<"customer", "name", "first_name">>]
                         = data[<<"customer", "name", "first_name">>]
            /\ unit.out = filterOutput(data, policy)

\* C14 witness: ..first_name: redact declared before
\* .customer.name.first_name: allow, and the first name was kept.
C14_Witness ==
    /\ Filtered
    /\ unit.in.policy =
          << [pattern |-> Recursive("first_name"), rule |-> "redact"],
             [pattern |-> Path(<<"customer", "name", "first_name">>), rule |-> "allow"] >>
    /\ <<"customer", "name", "first_name">> \in DOMAIN unit.out.filtered

-----------------------------------------------------------------------------
(* Properties of masking                                                   *)

\* The mask shape of a filtered value: absent, or its length and the
\* positions of its mask characters.
MaskShape(data) ==
    IF <<"fullName">> \notin DOMAIN data THEN <<"absent">>
    ELSE LET v == data[<<"fullName">>]
         IN  <<"present", Len(v), {i \in 1..Len(v) : v[i] = "*"}>>

\* C15: masking a string of length 3 or more gives its first character, a
\* mask token of one fixed length and its last character; masking a string of
\* length 2 or less redacts it entirely.
C15_MaskFixedLengthOrRedact ==
    unit.op = "mask" /\ unit.out.times = 1 =>
        IF Len(unit.in) >= 3
        THEN /\ <<"fullName">> \in DOMAIN unit.out.data
             /\ unit.out.data[<<"fullName">>]
                    = <<unit.in[1], "*", "*", "*", unit.in[Len(unit.in)]>>
        ELSE <<"fullName">> \notin DOMAIN unit.out.data

\* C16: filtering an already-masked value again, any number of times, gives a
\* value of the same mask shape as masking once.
C16_MaskShapeStable ==
    unit.op = "mask" /\ unit.out.times >= 1 =>
        MaskShape(unit.out.data) = MaskShape(unit.out.once)

-----------------------------------------------------------------------------
(* Properties of the registry                                              *)

\* The definitions passed to register so far, without those whose name an
\* earlier one already had.
RECURSIVE FirstOfEachName(_)
FirstOfEachName(defs) ==
    IF defs = <<>> THEN <<>>
    ELSE LET earlier == FirstOfEachName(SubSeq(defs, 1, Len(defs) - 1))
             last == defs[Len(defs)]
         IN  IF \E i \in 1..Len(earlier) : earlier[i].name = last.name
             THEN earlier ELSE Append(earlier, last)

NameTaken(defs, n) ==
    \E i \in 1..n : defs[i].name = defs[n + 1].name

\* C17: register with a name already registered fails with DuplicateName and
\* leaves the registry as it was (get still returns the earlier definition);
\* register with a new name stores the definition.
C17_DuplicateRejected ==
    IsRegistryUnit =>
        LET defs == unit.in.registered
        IN  /\ registry = FirstOfEachName(defs)
            /\ unit.op = "register" =>
                  IF NameTaken(defs, Len(defs) - 1)
                  THEN /\ unit.out = "DuplicateName"
                       /\ registry = FirstOfEachName(SubSeq(defs, 1, Len(defs) - 1))
                       /\ RegistryGet(registry, unit.in.arg.name) =
                             defs[CHOOSE i \in 1..Len(defs) :
                                     /\ defs[i].name = unit.in.arg.name
                                     /\ \A j \in 1..(i - 1) :
                                           defs[j].name # unit.in.arg.name]
                  ELSE /\ unit.out = "none"
                       /\ registry[Len(registry)] = unit.in.arg

\* C17 witness: a second definition named list_files was rejected and get
\* returns the first.
C17_Witness ==
    /\ unit.op = "register"
    /\ unit.out = "DuplicateName"
    /\ unit.in.arg.name = "list_files"
    /\ unit.in.arg # list_files
    /\ RegistryGet(registry, "list_files") = list_files

\* C18: after registering definitions with distinct names, list() returns
\* exactly those, in registration order; get(name) returns the definition
\* registered under the name, and "not found" for a name never registered.
C18_ListOrderAndGet ==
    LET defs == unit.in.registered
        distinct == \A i, j \in 1..Len(defs) : defs[i].name = defs[j].name => i = j
    IN  /\ unit.op = "list" /\ distinct => unit.out = defs
        /\ unit.op = "get" /\ distinct =>
              /\ \A i \in 1..Len(defs) :
                    defs[i].name = unit.in.arg => unit.out = defs[i]
              /\ (\A i \in 1..Len(defs) : defs[i].name # unit.in.arg)
                    => unit.out = NoTool

\* C18 witness: three definitions registered, list returned them in the
\* order of registration, which is not the order of their names.
C18_Witness ==
    /\ unit.op = "list"
    /\ unit.in.registered = <<update_customer_status, argocd_sync, list_files>>
    /\ unit.out = <<update_customer_status, argocd_sync, list_files>>

-----------------------------------------------------------------------------
(* Properties of the audit logger                                          *)

\* C19: the audit write leaves the call's result as the pipeline computed it,
\* whether the write succeeds or fails; a failed write is reported on stderr
\* and nowhere else.
C19_Step(c) ==
    pc[c] = "AUDIT" /\ pc'[c] = "DONE" =>
        /\ result[c].set
        /\ result'[c] = result[c]
        /\ \/ auditFile' = Append(auditFile, auditLog'[Len(auditLog')]) /\ stderr' = stderr
           \/ stderr' = Append(stderr, c) /\ auditFile' = auditFile

C19_AuditFailureInvisible == [][\A c \in Calls : C19_Step(c)]_vars

\* C19 witness: a successful call whose audit write failed: the failure is on
\* stderr, nothing was persisted, and the caller has its data.
C19_Witness ==
    \E c \in Calls :
        /\ pc[c] = "DONE"
        /\ \E i \in 1..Len(stderr) : stderr[i] = c
        /\ auditFile = <<>>
        /\ result[c].ok
        /\ result[c].data # NoOutput

\* What an audit entry may hold of the output: the hash of the raw output and
\* the paths, not the values, of the masked or redacted fields.
OutputOnlyHashed(e) ==
    /\ DOMAIN e.response = {"redactedFields", "outputHash", "present"}
    /\ e.response.present =>
          /\ e.response.outputHash = outputHash(st[e.traceId].exec.output)
          /\ e.response.redactedFields \subseteq DOMAIN st[e.traceId].exec.output
    /\ \A k \in 1..Len(e.denial.reason.errors) :
          DOMAIN e.denial.reason.errors[k] = {"path", "expected"}

\* The entry holds no argument in cleartext, only the hash of the raw arguments.
ArgsOnlyHashed(e) ==
    /\ e.request.argsHash = argsHash(req[e.traceId].args)
    /\ \A k \in 1..Len(e.request.args) : e.request.args[k].hashed

\* C20 as claimed: no audit entry ever contains a raw argument value or a raw
\* output value, only the hash of the arguments, the output hash and the list
\* of masked/redacted paths.
C20_Original ==
    \A i \in 1..Len(auditLog) :
        ArgsOnlyHashed(auditLog[i]) /\ OutputOnlyHashed(auditLog[i])

\* C20 amended: in production mode no audit entry contains a raw argument
\* value; in debug mode an entry records the arguments with the fields the
\* tool lists as PII hashed and the others in cleartext; in both modes the
\* output appears only as the output hash and the masked/redacted paths.
C20_NoRawValuesInProduction ==
    \A i \in 1..Len(auditLog) :
        LET e == auditLog[i]
            raw == req[e.traceId].args
        IN  /\ OutputOnlyHashed(e)
            /\ ~config.debug => ArgsOnlyHashed(e) /\ e.request.args = <<>>
            /\ config.debug =>
                  /\ e.request.argsHash = argsHash(raw)
                  /\ \A k \in 1..Len(e.request.args) :
                        /\ e.request.args[k].field = raw.field
                        /\ e.request.args[k].hashed
                              <=> (raw.field \in st[e.traceId].tool.piiFields)
                        /\ ~e.request.args[k].hashed
                              => e.request.args[k].value = raw.value

\* C20 witness: in production mode, an allowed call with object arguments and
\* a redacted output field has its entry, with the hash and the path only.
C20_Witness ==
    /\ ~config.debug
    /\ \E i \in 1..Len(auditLog) :
          /\ auditLog[i].decision = "ALLOWED"
          /\ req[auditLog[i].traceId].args.kind = "object"
          /\ auditLog[i].request.args = <<>>
          /\ auditLog[i].response.redactedFields = {<<"customer", "email">>}

TimedOut(c) == st[c].detail.kind = "timeout"

\* C21: a call whose handler ran past its deadline is an error at stage
\* EXECUTION with decision ERROR; it goes from EXECUTE straight to the audit
\* step, so output validation and output filtering are never entered; the
\* output captured before the abort is neither kept for the later steps nor
\* returned, and no path is reported as filtered.
C21_TimeoutIsExecutionFailure ==
    \A c \in Calls :
        TimedOut(c) =>
            /\ pc[c] \in {"AUDIT", "DONE"}
            /\ st[c].stage = "EXECUTION"
            /\ st[c].decision = "ERROR"
            /\ st[c].exec = NoExec
            /\ st[c].redactedPaths = {}
            /\ handlerRuns[c] = 1
            /\ ~result[c].ok
            /\ result[c].error.stage = "EXECUTION"
            /\ result[c].data = NoOutput

\* C21 witness: a list_files call whose handler timed out is DONE with an
\* EXECUTION error and no data, and its audit entry records ERROR.
C21_Witness ==
    \E c \in Calls :
        /\ pc[c] = "DONE"
        /\ TimedOut(c)
        /\ req[c].toolName = "list_files"
        /\ result[c].error.stage = "EXECUTION"
        /\ result[c].data = NoOutput
        /\ \E i \in EntriesOf(c) : auditLog[i].decision = "ERROR"

RegisteredNames(reg) == {reg[i].name : i \in 1..Len(reg)}

\* One step keeps the registry monotonic and immutable.
C22_Step ==
    /\ RegisteredNames(registry) \subseteq RegisteredNames(registry')
    /\ \A name \in ToolNames :
          RegistryGet(registry, name) # NoTool
              => RegistryGet(registry', name) = RegistryGet(registry, name)
    /\ Serving => registry' = registry

\* C22: no step removes a name from the registry; once a name is registered,
\* get(name) returns the same definition after every later step, a rejected
\* duplicate registration included; and no step of a call through the proxy
\* changes the registry.
C22_RegistryMonotonic == [][C22_Step]_vars

\* C22 witness: after list_files was registered first and a second tool after
\* it, a list_files call served by the proxy is DONE and get("list_files") is
\* still the definition registered at startup.
C22_Witness ==
    \E c \in Calls :
        /\ pc[c] = "DONE"
        /\ req[c].toolName = "list_files"
        /\ result[c].ok
        /\ Len(registry) = 2
        /\ registry[1] = list_files
        /\ RegistryGet(registry, "list_files") = list_files

ExecutionFailed(c) == st[c].detail.kind \in {"exit", "timeout"}

\* C26: the handler is invoked at most once per call, and not at all before
\* EXECUTE has been taken; a call whose one invocation failed or timed out has
\* left EXECUTE for the audit step with an error result already set, and is
\* never at EXECUTE again.
C26_NoRetry ==
    \A c \in Calls :
        /\ handlerRuns[c] <= 1
        /\ pc[c] = "EXECUTE" => handlerRuns[c] = 0
        /\ ExecutionFailed(c) =>
              /\ handlerRuns[c] = 1
              /\ pc[c] \in {"AUDIT", "DONE"}
              /\ result[c].set /\ ~result[c].ok

\* C26 witness: a list_files handler that exited with code 1 ran once and
\* the call is DONE with an error.
C26_Witness ==
    \E c \in Calls :
        /\ pc[c] = "DONE"
        /\ req[c].toolName = "list_files"
        /\ st[c].detail.kind = "exit"
        /\ st[c].detail.exitCode = 1
        /\ handlerRuns[c] = 1
        /\ ~result[c].ok

\* Rule i is a redact rule whose path ends at an object or array above the leaf.
RedactsAbove(policy, i, leaf) ==
    /\ policy[i].rule = "redact"
    /\ policy[i].pattern.kind = "path"
    /\ Len(policy[i].pattern.segs) < Len(leaf)
    /\ \A k \in 1..Len(policy[i].pattern.segs) :
          SegMatch(policy[i].pattern.segs[k], leaf[k])

MaskedOrRedacted(data, policy) ==
    {leaf \in DOMAIN data :
        /\ \E i \in 1..Len(policy) : Matches(policy[i].pattern, leaf)
        /\ policy[Winner(policy, leaf)].rule \in {"mask", "redact"}}

\* C28: filterOutput has a value for every generated output and policy, the
\* empty policy and the empty output included: a result with a filtered part
\* that holds leaves of the output only and a set of paths of the output; the reported paths are
\* exactly the leaves to which a mask or redact rule applied: no leaf whose
\* rule is allow, no leaf stripped because no rule matches it; and what is
\* reported is a path of the output, never the value of a field.
C28_TotalAndExactPaths ==
    /\ unit.op = "filterOutput" =>
          LET out == filterOutput(unit.in.data, unit.in.policy)
          IN  /\ DOMAIN out = {"filtered", "redactedPaths"}
              /\ DOMAIN out.filtered \subseteq DOMAIN unit.in.data
              /\ out.redactedPaths \subseteq DOMAIN unit.in.data
    /\ Filtered =>
        LET data == unit.in.data
            policy == unit.in.policy
            out == unit.out
        IN  /\ DOMAIN out = {"filtered", "redactedPaths"}
            /\ DOMAIN out.filtered \subseteq DOMAIN data
            /\ out.redactedPaths = MaskedOrRedacted(data, policy)
            /\ \A leaf \in DOMAIN data :
                  (\A i \in 1..Len(policy) : ~Matches(policy[i].pattern, leaf))
                      => leaf \notin out.redactedPaths
            /\ \A leaf \in DOMAIN out.filtered :
                  out.filtered[leaf] = data[leaf] => leaf \notin out.redactedPaths
            /\ \A p \in out.redactedPaths :
                  p \in DOMAIN data /\ \A leaf \in DOMAIN data : p # data[leaf]
            /\ policy = <<>> => out = [filtered |-> <<>>, redactedPaths |-> {}]

\* C28 witness: one output with an allowed leaf, a redacted leaf and a leaf no
\* rule matches; only the redacted leaf is reported.
C28_Witness ==
    /\ Filtered
    /\ \E a, b, d \in DOMAIN unit.in.data :
          /\ a \in DOMAIN unit.out.filtered /\ unit.out.filtered[a] = unit.in.data[a]
          /\ \A i \in 1..Len(unit.in.policy) : ~Matches(unit.in.policy[i].pattern, d)
          /\ d \notin DOMAIN unit.out.filtered
          /\ unit.out.redactedPaths = {b}

\* The fields the called tool flags as PII-sensitive (none for an unknown tool).
PiiFieldsOf(r) == RegistryGet(registry, r.toolName).piiFields

\* C29: in production mode an audit entry records the arguments as the hash of
\* the raw arguments and records no field of them; in debug mode it records each
\* argument field, a field the tool lists in piiFields as a hash and every
\* other field with its value; in neither mode does the entry hold the value of
\* a field listed in piiFields.
C29_PiiArgsHashedInBothModes ==
    \A i \in 1..Len(auditLog) :
        LET e == auditLog[i]
            raw == req[e.traceId].args
            pii == PiiFieldsOf(req[e.traceId])
        IN  /\ e.request.argsHash = argsHash(raw)
            /\ ~config.debug => e.request.args = <<>>
            /\ config.debug =>
                  /\ Len(e.request.args) = (IF raw.kind = "object" THEN 1 ELSE 0)
                  /\ \A k \in 1..Len(e.request.args) :
                        LET a == e.request.args[k]
                        IN  /\ a.field = raw.field
                            /\ a.field \in pii =>
                                  a.hashed /\ argsHash(raw) = a.value
                            /\ a.field \notin pii =>
                                  ~a.hashed /\ a.value = raw.value
            /\ \A k \in 1..Len(e.request.args) :
                  e.request.args[k].field \in pii
                      => e.request.args[k].value # raw.value

\* C29 witness: in debug mode, the entry of a call of a tool that lists
\* directory in piiFields records directory as a hash, not as "/app/src".
C29_Witness ==
    /\ config.debug
    /\ \E i \in 1..Len(auditLog) :
          LET e == auditLog[i]
          IN  /\ req[e.traceId].args = Obj("directory", "/app/src")
              /\ "directory" \in PiiFieldsOf(req[e.traceId])
              /\ e.decision = "ALLOWED"
              /\ e.request.args =
                    << [field |-> "directory", hashed |-> TRUE,
                        value |-> argsHash(Obj("directory", "/app/src"))] >>

\* C30: the audit entry of a call agrees with the result of the call: its
\* decision is ALLOWED exactly when the result is ok: true; it has a denial
\* exactly when its decision is DENIED or ERROR, and the denial's stage is the
\* stage of the returned error; it has response metadata only when the
\* decision is ALLOWED (the redacted paths and the hash of the raw output of
\* this call); and its caller and tool are the caller, the tool name and the
\* registered classification of the call.
C30_EntryAgreesWithResult ==
    \A i \in 1..Len(auditLog) :
        LET e == auditLog[i]
            c == e.traceId
        IN  /\ result[c].set
            /\ e.decision \in {"ALLOWED", "DENIED", "ERROR"}
            /\ e.decision = "ALLOWED" <=> result[c].ok
            /\ e.denial # NoDenial <=> e.decision \in {"DENIED", "ERROR"}
            /\ e.decision \in {"DENIED", "ERROR"} =>
                  /\ e.denial.stage = result[c].error.stage
                  /\ e.denial.stage \in {"REGISTRY", "PERMISSION", "VALIDATION",
                                         "EXECUTION", "OUTPUT"}
            /\ e.response.present <=> e.decision = "ALLOWED"
            /\ e.decision # "ALLOWED" => e.response = NoResponse
            /\ e.decision = "ALLOWED" =>
                  /\ e.response.redactedFields
                        = filterOutput(st[c].exec.output,
                                       RegistryGet(registry, req[c].toolName).outputPolicy
                                      ).redactedPaths
                  /\ e.response.outputHash = outputHash(st[c].exec.output)
            /\ e.caller = req[c].caller
            /\ e.tool.name = req[c].toolName
            /\ e.tool.classification
                  = RegistryGet(registry, req[c].toolName).classification

\* C30 witness: a call denied at PERMISSION is DONE; its entry says DENIED at
\* PERMISSION, as the returned error does, and has no response metadata.
C30_Witness ==
    \E c \in Calls :
        /\ pc[c] = "DONE"
        /\ ~result[c].ok
        /\ result[c].error.stage = "PERMISSION"
        /\ \E i \in EntriesOf(c) :
              /\ auditLog[i].decision = "DENIED"
              /\ auditLog[i].denial.stage = "PERMISSION"
              /\ ~auditLog[i].response.present
              /\ auditLog[i].caller = req[c].caller

\* The pipeline state in which a failure at step `at` leaves a call.
AloneFailure(tool, at, detail) ==
    [ tool |-> tool, decision |-> DecisionOnFailure(StageOf(at)),
      stage |-> StageOf(at), detail |-> detail, exec |-> NoExec,
      redactedPaths |-> {} ]

\* The final pipeline state and result of request r when it is the only call
\* and its handler, if it is run, ends as o.
AloneRun(r, o) ==
    LET tool == RegistryGet(registry, r.toolName)
        check == checkPermissions(r.caller, tool, r.args)
        vin == validateInput(tool.input, r.args)
        vout == validateOutput(tool.outputFields, o.output)
        f == filterOutput(o.output, tool.outputPolicy)
    IN  IF tool = NoTool
        THEN [ state |-> AloneFailure(NoTool, "LOOKUP", NoDetail),
               result |-> Err(ErrorCode("LOOKUP"), Generic("tool not registered"),
                              "REGISTRY", <<>>) ]
        ELSE IF ~check.allowed
        THEN [ state |-> AloneFailure(tool, "PERMISSION",
                            [NoDetail EXCEPT !.missing = check.missingPermissions]),
               result |-> Err(ErrorCode("PERMISSION"),
                              PermissionMessage(check.missingPermissions),
                              "PERMISSION", <<>>) ]
        ELSE IF ~vin.ok
        THEN [ state |-> AloneFailure(tool, "VALIDATE_INPUT",
                            [NoDetail EXCEPT !.errors = vin.errors]),
               result |-> Err(ErrorCode("VALIDATE_INPUT"), Generic("invalid input"),
                              "VALIDATION", vin.errors) ]
        ELSE IF o.kind # "ok"
        THEN [ state |-> AloneFailure(tool, "EXECUTE",
                            [NoDetail EXCEPT !.exitCode = o.exitCode, !.kind = o.kind]),
               result |-> Err(ErrorCode("EXECUTE"), ExecutionMessage(o),
                              "EXECUTION", <<>>) ]
        ELSE IF ~vout.ok
        THEN [ state |-> [AloneFailure(tool, "VALIDATE_OUTPUT",
                             [NoDetail EXCEPT !.missingFields = vout.missingFields])
                          EXCEPT !.exec = o],
               result |-> Err(ErrorCode("VALIDATE_OUTPUT"), Generic("internal error"),
                              "OUTPUT", <<>>) ]
        ELSE [ state |-> [ tool |-> tool, decision |-> "ALLOWED", stage |-> "",
                           detail |-> NoDetail, exec |-> o,
                           redactedPaths |-> f.redactedPaths ],
               result |-> Ok(f.filtered) ]

\* The entries of call c among those handed to the audit logger.
ParallelEntriesOf(c) == {i \in 1..Len(auditLog) : auditLog[i].traceId = c}

\* C23: whatever the other calls in flight do and however the steps
\* interleave, a call that has returned has the result, and its one audit entry
\* the content, that the same request has when it is the only call, for one of
\* the ways its handler can end; no call has two entries and a call that has
\* not reached the audit step has none.
C23_ParallelCallsIndependent ==
    \A c \in ParallelCalls :
        /\ Cardinality(ParallelEntriesOf(c)) <= 1
        /\ pc[c] # "DONE" => ParallelEntriesOf(c) = {}
        /\ pc[c] = "DONE" =>
              \E o \in ExecOutcomes(RegistryGet(registry, req[c].toolName)) :
                  LET alone == AloneRun(req[c], o)
                  IN  /\ result[c] = alone.result
                      /\ Cardinality(ParallelEntriesOf(c)) = 1
                      /\ \A i \in ParallelEntriesOf(c) :
                            auditLog[i] = AuditEntry(c, req[c], alone.state)

\* C23 witness: two different calls are in flight in one state, both with
\* their results computed and neither yet audited: call 1 served with its
\* filtered output, call 2 denied at PERMISSION.
C23_Witness ==
    /\ pc[1] = "AUDIT" /\ pc[2] = "AUDIT"
    /\ result[1] = AloneRun(req[1], st[1].exec).result
    /\ result[1].ok /\ result[1].data # NoOutput
    /\ ~result[2].ok /\ result[2].error.stage = "PERMISSION"
    /\ ParallelEntriesOf(1) = {} /\ ParallelEntriesOf(2) = {}

\* s is written in the order of t: the entries of s are entries of t, each
\* once, in the order they have in t.
RECURSIVE InOrderOf(_, _)
InOrderOf(s, t) ==
    IF s = <<>> THEN TRUE
    ELSE IF t = <<>> THEN FALSE
    ELSE IF Head(s) = Head(t) THEN InOrderOf(Tail(s), Tail(t))
    ELSE InOrderOf(s, Tail(t))

\* One step of the destination: what was written stays as written and new
\* lines only follow it.
AppendOnly ==
    /\ Len(auditFile') >= Len(auditFile)
    /\ SubSeq(auditFile', 1, Len(auditFile)) = auditFile
    /\ Len(auditFile') <= Len(auditFile) + 1

\* The destination holds whole entries in dispatch order, none twice, and none
\* that is still queued.
WrittenInDispatchOrder ==
    /\ InOrderOf(auditFile, auditLog)
    /\ \A i, j \in 1..Len(auditFile) :
          auditFile[i].traceId = auditFile[j].traceId => i = j
    /\ \A i \in 1..Len(auditFile), k \in 1..Len(auditQueue) :
          auditFile[i].traceId # auditQueue[k].traceId
    /\ InOrderOf(auditQueue, auditLog)

\* C24: every step leaves the lines already in the destination in place and
\* adds at most one line after them (each earlier state of the file is a prefix
\* of each later one, no written entry is changed); the lines are entries as
\* they were dispatched, whole, each written once, in the order of dispatch,
\* also for calls in flight together; and only the writer adds a line.
C24_SingleWriterAppendOnly ==
    [][ /\ AppendOnly
        /\ WrittenInDispatchOrder'
        /\ auditFile' # auditFile =>
              /\ auditQueue # <<>>
              /\ auditFile' = Append(auditFile, Head(auditQueue))
              /\ auditQueue' = Tail(auditQueue)
              /\ UNCHANGED <<pc, result, auditLog>> ]_vars

\* C24 witness: the entry of the earlier call and the entries of two calls
\* in flight have all been written, in the order of dispatch, the second
\* call's entry before the first call's.
C24_Witness ==
    /\ Len(auditFile) = 3
    /\ auditFile = auditLog
    /\ auditFile[1] = Backlog
    /\ auditFile[2].traceId = 2
    /\ auditFile[3].traceId = 1
    /\ auditQueue = <<>>

\* C25: a call that has returned has its audit entry fully built and handed
\* over, whether the entry is written, still queued, or was never written; and
\* a call that has begun always reaches DONE with its result, with nothing
\* assumed of the writer: the writer may never take a step, and the queue may
\* be full.
C25_ReturnNeverWaitsForSink ==
    /\ [](\A c \in ParallelCalls :
            pc[c] = "DONE" =>
                /\ result[c].set
                /\ \E i \in ParallelEntriesOf(c) :
                      auditLog[i] = AuditEntry(c, req[c], st[c]))
    /\ <>[](\A c \in ParallelCalls : pc[c] \in {"IDLE", "DONE"})

\* C25 witness: both calls have returned while the queue is full of entries
\* the writer has not taken, nothing has been written, and the entry of the
\* last call to return found no room.
C25_Witness ==
    /\ \A c \in ParallelCalls : pc[c] = "DONE" /\ result[c].set
    /\ Len(auditQueue) = MaxQueue
    /\ auditFile = <<>>
    /\ Len(auditLog) > MaxQueue
    /\ stderr # <<>>

====
